---- MODULE Spec2Model ----
(***************************************************************************)
(* swagger-spec-validator: the command entry point, the batch validator    *)
(* (validateAll) and the library call validate/validateFile, as a state    *)
(* machine.  One action per handler: Cmd is the synchronous body of        *)
(* swaggerSpecValidatorCmd after argument parsing (deduplication, the      *)
(* dispatch loop of validateAll and the synchronous part of every validate *)
(* call), CmdLine the same body from the raw argument list on, Validate a  *)
(* call of the library by another caller; the other actions are the        *)
(* promise continuations and the event handlers that validate and          *)
(* requestJson register (stream 'end'/'error', request 'error'/'response', *)
(* response 'error'/'end').                                                *)
(***************************************************************************)
EXTENDS Integers, Sequences, FiniteSets, TLC

(***************************************************************************)
(* Bounds of the model.                                                    *)
(***************************************************************************)
MaxArgs == 2        \* positional arguments on the command line (Spec)
MaxCmdArgs == 3     \* positional arguments on the command line (SpecCmd)
MaxFlags == 2       \* occurrences of -q/--quiet and -v/--verbose together
MaxFaults == 1      \* 'error' events the environment raises on its own
MaxArgv == 3        \* words on the command line after the program name (SpecArgs)

\* The literal strings a positional argument is drawn from: in Spec, where
\* the validations run to their end, and in SpecCmd, which stops after the
\* dispatch.
Paths == {"-", "a.json"}
CmdPaths == {"-", "./-", "file1", "./file1", "A.YML"}
\* a library caller's spec streams (SpecLib): the input stream, and files
\* named with and without a known extension
LibPaths == {"-", "a.json", "b.YML", "c.Yaml", "d.txt"}

VARIABLES
  argsType,      \* what was passed as args: "array", "short" (one element), "other"
  libArgs,       \* the argument of a library call whose type is invalid:
                 \* "spec", "options", "err" (options.err), or "ok" for none
  argv,          \* the words of args after the two runtime words
  opts,          \* validate options: request (for http.request) and url
  args,          \* positional arguments as given (command.args before line 268)
  nQuiet,        \* number of -q flags given
  nVerbose,      \* number of -v flags given
  faults,        \* 'error' events the environment may still inject
  pc,            \* "start" | "running" | "complete" | "crashed": the command;
                 \* "rejected": its callback got an error; "threw": an
                 \* exception left it; "lib": a library call by another caller;
                 \* "invalid": that call returned with callback(err) queued
  specPaths,     \* the target list validateAll runs over
  verbosity,     \* validateOpts.verbosity
  calls,         \* library calls made by validateAll, in order
  call,          \* per target: the state of its validate call
  hadError,      \* validateAll.hadError
  hadInvalid,    \* validateAll.hadInvalid
  numValidated,  \* validateAll.numValidated
  routed,        \* per target: outcomes onResult was invoked with, in order
  log,           \* writes to options.out / options.err, in order
  delivered      \* exit codes passed to the callback of validateAll, in order

vars == <<argsType, libArgs, argv, opts, args, nQuiet, nVerbose, faults, pc,
          specPaths, verbosity, calls, call, hadError, hadInvalid, numValidated,
          routed, log, delivered>>

inputVars == <<argsType, libArgs, argv, opts, args, nQuiet, nVerbose>>
batchVars == <<hadError, hadInvalid, numValidated, routed, log, delivered, pc>>

(***************************************************************************)
(* Strings.                                                                *)
(***************************************************************************)
UpperChars == "ABCDEFGHIJKLMNOPQRSTUVWXYZ"
LowerChars == "abcdefghijklmnopqrstuvwxyz"

\* String.prototype.toLowerCase on one character
ToLowerChar(c) ==
  IF \E k \in 1..Len(UpperChars) : SubSeq(UpperChars, k, k) = c
  THEN LET k == CHOOSE j \in 1..Len(UpperChars) : SubSeq(UpperChars, j, j) = c
       IN SubSeq(LowerChars, k, k)
  ELSE c

RECURSIVE ToLowerCase(_)
ToLowerCase(s) ==
  IF Len(s) = 0 THEN ""
  ELSE ToLowerChar(SubSeq(s, 1, 1)) \o ToLowerCase(SubSeq(s, 2, Len(s)))

\* /<suffix>$/i.test(s), for a literal suffix
EndsWithIgnoreCase(s, suffix) ==
  /\ Len(s) >= Len(suffix)
  /\ ToLowerCase(SubSeq(s, Len(s) - Len(suffix) + 1, Len(s))) = suffix

\* Array.prototype.join
RECURSIVE Join(_, _)
Join(lines, sep) ==
  IF Len(lines) = 0 THEN ""
  ELSE IF Len(lines) = 1 THEN lines[1]
  ELSE lines[1] \o sep \o Join(Tail(lines), sep)

\* Array.prototype.map
Map(seq, F(_)) == [k \in 1..Len(seq) |-> F(seq[k])]

\* Array.prototype.reverse
Reverse(seq) == [k \in 1..Len(seq) |-> seq[Len(seq) + 1 - k]]

\* the first position at or after k where s holds the character ch, 0 if none
RECURSIVE IndexOfFrom(_, _, _)
IndexOfFrom(s, ch, k) ==
  IF k > Len(s) THEN 0
  ELSE IF SubSeq(s, k, k) = ch THEN k
  ELSE IndexOfFrom(s, ch, k + 1)

\* the last position at or before k where s holds the character ch, 0 if none
RECURSIVE LastIndexOfFrom(_, _, _)
LastIndexOfFrom(s, ch, k) ==
  IF k < 1 THEN 0
  ELSE IF SubSeq(s, k, k) = ch THEN k
  ELSE LastIndexOfFrom(s, ch, k - 1)

\* the first position at or after k where s holds a character other than ch,
\* Len(s) + 1 if none
RECURSIVE SkipChar(_, _, _)
SkipChar(s, ch, k) ==
  IF k > Len(s) THEN Len(s) + 1
  ELSE IF SubSeq(s, k, k) # ch THEN k
  ELSE SkipChar(s, ch, k + 1)

\* { ...a, ...b }: the properties of a, replaced and extended by those of b
Spread(a, b) ==
  [k \in DOMAIN a \cup DOMAIN b |-> IF k \in DOMAIN b THEN b[k] ELSE a[k]]

\* the object has the property
Has(obj, key) == key \in DOMAIN obj

(***************************************************************************)
(* Values: validation results (parsed JSON) and errors.                    *)
(***************************************************************************)
\* A property that is absent (undefined) or holds an array
NoList == [has |-> FALSE, items |-> <<>>]
List(items) == [has |-> TRUE, items |-> items]

\* A parsed JSON response body, as far as getMessages looks at it.
\* kind "null" is the JSON value null; "scalar" is a number, string or array.
Result(kind, messages, schemaValidationMessages) ==
  [kind |-> kind, messages |-> messages,
   schemaValidationMessages |-> schemaValidationMessages]

SchemaMsg == [level |-> "error", message |-> "bad"]

ResultEmpty == Result("object", NoList, NoList)
ResultEmptyLists == Result("object", List(<<>>), List(<<>>))
ResultMessages == Result("object", List(<<"m1">>), NoList)
ResultSchema == Result("object", NoList, List(<<SchemaMsg>>))
ResultBoth == Result("object", List(<<"m1", "m2">>), List(<<SchemaMsg>>))
ResultScalar == Result("scalar", NoList, NoList)
ResultNull == Result("null", NoList, NoList)

Results == {ResultEmpty, ResultEmptyLists, ResultMessages, ResultSchema,
            ResultBoth, ResultScalar, ResultNull}

\* the placeholder passed where the code passes no result
NoResult == ResultEmpty

Error(name, message) == [isError |-> TRUE, name |-> name, message |-> message]
NoError == [isError |-> FALSE, name |-> "", message |-> ""]

\* Error.prototype.toString
ErrorToString(err) == err.name \o ": " \o err.message
\* err.stack: the string form followed by the frames
ErrorStack(err) == ErrorToString(err) \o "\n    at <anonymous>\n"

StreamFailure == Error("Error", "ENOENT: no such file or directory")
RequestFailure == Error("Error", "socket hang up")
ResponseFailure == Error("Error", "aborted")

(***************************************************************************)
(* bin/swagger-spec-validator.js: getMessages and the routing of one       *)
(* result (validateAll.onResult).                                          *)
(***************************************************************************)
\* `${m.level}: ${m.message}`
SchemaMessageText(m) == m.level \o ": " \o m.message

\* result.messages on null throws TypeError
GetMessagesThrows(result) == result.kind = "null"

\* faulty variant: the schema messages come first
getMessagesSchemaFirst(result) ==
  (IF result.schemaValidationMessages.has
   THEN Map(result.schemaValidationMessages.items, SchemaMessageText)
   ELSE <<>>)
    \o (IF result.messages.has THEN result.messages.items ELSE <<>>)

getMessages(result) ==
  LET fromMessages ==
        IF result.messages.has THEN result.messages.items ELSE <<>>
      fromSchema ==
        IF result.schemaValidationMessages.has
        THEN Map(result.schemaValidationMessages.items, SchemaMessageText)
        ELSE <<>>
  IN fromMessages \o fromSchema

\* faulty variant: invalid takes precedence over error
ExitCodeInvalidFirst(error, invalid) ==
  IF invalid THEN 1 ELSE IF error THEN 2 ELSE 0

\* hadError ? 2 : hadInvalid ? 1 : 0
ExitCode(error, invalid) == IF error THEN 2 ELSE IF invalid THEN 1 ELSE 0

ValidText == "All OpenAPI/Swagger specs are valid.\n"

\* one write to a stream: by is the function that made it ("cmd", "validate"
\* or "onResult"), src the index of the target it was made for (0: none)
Write(stream, by, src, text) ==
  [stream |-> stream, by |-> by, src |-> src, text |-> text]

\* faulty variant: one -q already hides the error line
ShowErrorDefault(v) == v >= 0

\* options.verbosity >= -1, line 79
ShowError(v) == v >= -1
\* options.verbosity >= 1, line 81
ShowStack(v) == v >= 1
\* options.verbosity >= 0, line 89
ShowMessages(v) == v >= 0
\* faulty variant: the confirmation line needs -v
ShowValidVerbose(v) == v > 0

\* options.verbosity >= 0, line 99
ShowValid(v) == v >= 0

\* the writes onResult makes for an error (lines 79-84)
ErrorWrites(i, err) ==
  IF ShowError(verbosity)
  THEN <<Write("err", "onResult", i, specPaths[i] \o ": " \o ErrorToString(err) \o "\n")>>
       \o (IF ShowStack(verbosity)
           THEN <<Write("err", "onResult", i, ErrorStack(err))>> ELSE <<>>)
  ELSE <<>>

\* `${specPath}: ${message}`
WithPath(i, messages) == [k \in 1..Len(messages) |-> specPaths[i] \o ": " \o messages[k]]

\* the write onResult makes for a non-empty message list (lines 89-93)
MessageWrites(i, messages) ==
  IF Len(messages) > 0 /\ ShowMessages(verbosity)
  THEN <<Write("out", "onResult", i, Join(WithPath(i, messages), "\n") \o "\n")>>
  ELSE <<>>

\* faulty variant: the batch completes on any completion
AllValidatedAny(n) == n >= 1

\* numValidated === specPaths.length, line 98
AllValidated(n) == n = Len(specPaths)

\* faulty variant: the flag is assigned from the last result
SetOnErrorLast(had, isError) == isError

\* hadError = true under if (err), lines 77-78
SetOnError(had, isError) == had \/ isError
\* faulty variant: the flag is not set
SetOnInvalidNever(had, isInvalid) == had
\* faulty variant: the flag is set where the messages are written, under
\* the verbosity test of line 89
SetOnInvalidShown(had, isInvalid) == had \/ (isInvalid /\ ShowMessages(verbosity))

\* hadInvalid = true under if (messages.length > 0), lines 87-88
SetOnInvalid(had, isInvalid) == had \/ isInvalid

\* faulty variant: the output of a completion is put in front of what the
\* streams already hold
StreamWriteFront(written, writes) == writes \o written

\* options.err.write / options.out.write, lines 80-91 and 100: a write is
\* appended to what the streams hold
StreamWrite(written, writes) == written \o writes

\* the arguments of one invocation of onResult
Routed(err, result) == [err |-> err, result |-> result]

\* onResult(err, result) of target i, lines 76-107
onResult(i, err, result) ==
  IF ~err.isError /\ GetMessagesThrows(result)
  THEN \* getMessages throws: nothing after line 86 runs
       /\ pc' = "crashed"
       /\ routed' = [routed EXCEPT ![i] = Append(@, Routed(err, result))]
       /\ UNCHANGED <<hadError, hadInvalid, numValidated, log, delivered>>
  ELSE
    LET messages == IF err.isError THEN <<>> ELSE getMessages(result)
        error == SetOnError(hadError, err.isError)
        invalid == SetOnInvalid(hadInvalid, ~err.isError /\ Len(messages) > 0)
        n == numValidated + 1
        own == IF err.isError THEN ErrorWrites(i, err)
               ELSE MessageWrites(i, messages)
        last == IF AllValidated(n) /\ ~error /\ ~invalid /\ ShowValid(verbosity)
                THEN <<Write("err", "onResult", 0, ValidText)>> ELSE <<>>
    IN /\ hadError' = error
       /\ hadInvalid' = invalid
       /\ numValidated' = n
       /\ routed' = [routed EXCEPT ![i] = Append(@, Routed(err, result))]
       /\ log' = StreamWrite(log, own \o last)
       /\ delivered' = IF AllValidated(n)
                       THEN Append(delivered, ExitCode(error, invalid))
                       ELSE delivered
       /\ pc' = IF AllValidated(n) THEN "complete" ELSE pc

(***************************************************************************)
(* The library: validate, validateFile, guessSpecContentType, requestJson. *)
(***************************************************************************)
JSON_CONTENT_TYPE == "application/json"
YAML_CONTENT_TYPE == "application/yaml"

SniffNotice ==
  "Content-Type not specified and can't be inferred from filename.\n"
    \o "Reading spec content...\n"
AssumeYamlNotice == "Unable to parse spec content as JSON.  Assuming YAML.\n"
StdinNotice == "Reading spec from stdin...\n"

\* A headers object: its properties in insertion order (Object.keys)
Header(name, value) == [name |-> name, value |-> value]
HasOwn(headers, name) == \E k \in 1..Len(headers) : headers[k].name = name

\* headers[name] = value
SetHeader(headers, name, value) ==
  IF HasOwn(headers, name)
  THEN [k \in 1..Len(headers) |->
          IF headers[k].name = name THEN Header(name, value) ELSE headers[k]]
  ELSE Append(headers, Header(name, value))

DEFAULT_URL == "https://validator.swagger.io/validator/debug"
DEFAULT_HEADERS ==
  <<Header("Accept", JSON_CONTENT_TYPE),
    Header("User-Agent", "swagger-spec-validator/5.0.0 Node.js/18.0.0")>>

\* the loop of lines 278-284 over one headers object: a name is added unless
\* its lowercase form has been added already
RECURSIVE CombineInto(_, _)
CombineInto(combined, headers) ==
  IF Len(headers) = 0 THEN combined
  ELSE LET h == Head(headers)
           seen == \E k \in 1..Len(combined) :
                     ToLowerCase(combined[k].name) = ToLowerCase(h.name)
       IN CombineInto(IF seen THEN combined ELSE Append(combined, h),
                      Tail(headers))

RECURSIVE CombineAll(_, _)
CombineAll(combined, layers) ==
  IF Len(layers) = 0 THEN combined
  ELSE CombineAll(CombineInto(combined, Head(layers)), Tail(layers))

\* faulty variant: the layers are not reversed, the first occurrence wins
combineHeadersForward(layers) == CombineAll(<<>>, layers)

\* combineHeaders(...args), lines 272-288
combineHeaders(layers) == CombineAll(<<>>, Reverse(layers))

\* faulty variant: the name is compared as written
HasContentTypeExact(headers) ==
  \E k \in 1..Len(headers) : headers[k].name = "Content-Type"

\* Object.keys(headers).some((name) => name.toLowerCase() === 'content-type')
HasContentType(headers) ==
  \E k \in 1..Len(headers) : ToLowerCase(headers[k].name) = "content-type"

\* options.request when the caller gives none
NoRequest == [k \in {} |-> ""]
\* the validate options of a caller
Options(request, url) == [request |-> request, url |-> url]

\* faulty variant: the caller's request options are spread last
ReqOptsRequestLast(o) ==
  LET base == Spread([method |-> "POST", body |-> "stream"], o.request)
  IN Spread(base,
       [headers |-> IF Has(base, "headers")
                    THEN combineHeaders(<<DEFAULT_HEADERS, base.headers>>)
                    ELSE DEFAULT_HEADERS])

\* reqOpts, lines 542-550; the body "stream" is the caller's spec
ReqOpts(o) ==
  LET base == Spread(Spread([method |-> "POST"], o.request), [body |-> "stream"])
  IN Spread(base,
       [headers |-> IF Has(base, "headers")
                    THEN combineHeaders(<<DEFAULT_HEADERS, base.headers>>)
                    ELSE DEFAULT_HEADERS])

\* new URL(url).protocol: the scheme in lowercase with its colon; "" stands
\* for a string without a scheme, for which new URL throws TypeError
UrlProtocol(url) ==
  LET colon == IndexOfFrom(url, ":", 1)
  IN IF colon <= 1 THEN "" ELSE ToLowerCase(SubSeq(url, 1, colon))

\* reqUrl, lines 538-541
ReqUrl(o) == IF o.url = "" THEN DEFAULT_URL ELSE o.url
\* new URL(options.url) throws, line 541
UrlThrows(o) == UrlProtocol(ReqUrl(o)) = ""

\* options.protocol || url.protocol, line 319
ResolvedProtocol(reqOpts, reqUrl) ==
  IF Has(reqOpts, "protocol") /\ reqOpts.protocol # "" THEN reqOpts.protocol
  ELSE UrlProtocol(reqUrl)

\* faulty variant: every protocol is handed to a transport
SupportedProtocolAny(protocol) == TRUE

\* lines 320-322
SupportedProtocol(protocol) == protocol \in {"https:", "http:"}

ProtocolError(protocol) ==
  Error("Error", "Unsupported protocol \"" \o protocol \o "\" for validator URL")

\* the stream handed to validate for a target: options.in has no path,
\* fs.createReadStream(specPath) has path specPath
Stdin == "<stdin>"
HasPath(spec) == spec # Stdin

\* faulty variant: the extension is compared as written
ExtensionContentTypeExact(spec) ==
  IF ~HasPath(spec) THEN ""
  ELSE IF Len(spec) >= 5 /\ SubSeq(spec, Len(spec) - 4, Len(spec)) = ".json"
       THEN JSON_CONTENT_TYPE
  ELSE IF \/ Len(spec) >= 5 /\ SubSeq(spec, Len(spec) - 4, Len(spec)) = ".yaml"
          \/ Len(spec) >= 4 /\ SubSeq(spec, Len(spec) - 3, Len(spec)) = ".yml"
       THEN YAML_CONTENT_TYPE
  ELSE ""

\* guessSpecContentType on a stream: the type its path's extension gives, "" if none
ExtensionContentType(spec) ==
  IF ~HasPath(spec) THEN ""
  ELSE IF EndsWithIgnoreCase(spec, ".json") THEN JSON_CONTENT_TYPE
  ELSE IF EndsWithIgnoreCase(spec, ".yaml") \/ EndsWithIgnoreCase(spec, ".yml")
       THEN YAML_CONTENT_TYPE
  ELSE ""

\* what a sniffed stream delivered: content that parses as JSON, content that
\* does not, or no chunk at all (getStreamData resolves undefined)
Contents == {"json", "yaml", "empty"}

\* guessSpecDataContentType: JSON.parse succeeds or throws
ParsesAsJson(content) == content = "json"

\* faulty variant: content that does not parse is declared as JSON too
guessSpecDataContentTypeJson(content) == JSON_CONTENT_TYPE

guessSpecDataContentType(content) ==
  IF ParsesAsJson(content) THEN JSON_CONTENT_TYPE ELSE YAML_CONTENT_TYPE

\* faulty variant: the notices are written at the default verbosity
ShowNoticeDefault(v) == v >= 0

\* options.verbosity >= 1, lines 410 and 447
ShowNotice(v) == v >= 1

\* faulty variant: the path is normalized before the comparison
IsStdinTargetNormalized(specPath) == specPath \in {"-", "./-"}

\* the library call validateAll makes for a target (lines 109-113)
IsStdinTarget(specPath) == specPath = "-"
LibraryCall(specPath) ==
  IF IsStdinTarget(specPath)
  THEN [fn |-> "validate", spec |-> Stdin]
  ELSE [fn |-> "validateFile", spec |-> specPath]

\* a spec that is no string, Uint8Array or stream
NotASpec == "<other>"

\* faulty variant: the type of options is not tested
TypeCheckSpecOnly(invalid) ==
  IF invalid = "spec"
  THEN Error("TypeError", "spec must be a string, Uint8Array, or Readable")
  ELSE NoError

\* the checks of lines 508-527: the TypeError thrown for the argument of
\* invalid type, no error if there is none
TypeCheck(invalid) ==
  IF invalid = "spec"
  THEN Error("TypeError", "spec must be a string, Uint8Array, or Readable")
  ELSE IF invalid = "options" THEN Error("TypeError", "options must be an object")
  ELSE IF invalid = "err"
       THEN Error("TypeError", "options.err must be a stream.Writable")
  ELSE NoError

\* the response of a request that has not been answered
NoResponse ==
  [statusCode |-> 0, statusMessage |-> "", location |-> "", parses |-> FALSE,
   value |-> NoResult]

\* guessSpecContentType is called (line 561) and finds no content type in
\* the path: the content is read
Sniffs(spec, o) ==
  ~HasContentType(ReqOpts(o).headers) /\ ExtensionContentType(spec) = ""

\* faulty variant: headers the caller gave are used as they are
HeadersObjectCaller(o) == IF Has(o.request, "headers") THEN "request" ELSE "reqOpts"

\* the object reqOpts.headers is after lines 547-550: one of this call's
\* own ("reqOpts") in both branches, the object combineHeaders builds or
\* the copy { ...DEFAULT_HEADERS }; never the caller's options.request.headers
\* ("request")
HeadersObject(o) == "reqOpts"

\* the state of a validate call when validate returns.  stage "typed": the
\* promise contentInfoP is resolved; "sniff": it waits for the stream
NewCall(spec, o) ==
  [stage |-> IF Sniffs(spec, o) THEN "sniff" ELSE "typed",
   skipped |-> HasContentType(ReqOpts(o).headers),
   read |-> Sniffs(spec, o),
   contentType |-> IF HasContentType(ReqOpts(o).headers) THEN ""
                   ELSE ExtensionContentType(spec),
   specContent |-> "",
   body |-> ReqOpts(o).body,
   headers |-> ReqOpts(o).headers,
   headersOf |-> HeadersObject(o),
   method |-> ReqOpts(o).method,
   protocol |-> ResolvedProtocol(ReqOpts(o), ReqUrl(o)),
   res |-> NoResponse,
   calledBack |-> FALSE,
   aborted |-> FALSE,
   bodyErr |-> FALSE,
   reqErr |-> FALSE,
   resErr |-> FALSE]

\* the writes the synchronous part of validate makes (lines 447-452)
ValidateWrites(i, spec, v, o) ==
  IF Sniffs(spec, o) /\ ShowNotice(v)
  THEN <<Write("err", "validate", i, SniffNotice)>> ELSE <<>>

\* faulty variant: duplicates are kept
DedupeNone(seq) == seq

\* [...new Set(specPaths)]: first occurrences, in order
RECURSIVE Dedupe(_)
Dedupe(seq) ==
  IF Len(seq) = 0 THEN <<>>
  ELSE LET init == Dedupe(SubSeq(seq, 1, Len(seq) - 1))
           last == seq[Len(seq)]
       IN IF \E k \in 1..Len(init) : init[k] = last THEN init
          ELSE Append(init, last)

\* faulty variant: an empty list of positional arguments is kept
TargetListAsGiven(positional) ==
  IF Len(positional) > 1 THEN Dedupe(positional) ELSE positional

\* lines 268-277: the target list for the positional arguments
TargetList(positional) ==
  IF Len(positional) = 0 THEN <<"-">>
  ELSE IF Len(positional) > 1 THEN Dedupe(positional)
  ELSE positional

\* faulty variant: the verbosity is kept within -2..2
VerbosityClamped(verbose, quiet) ==
  IF verbose - quiet > 2 THEN 2
  ELSE IF verbose - quiet < -2 THEN -2 ELSE verbose - quiet

\* line 266
Verbosity(verbose, quiet) == verbose - quiet

(***************************************************************************)
(* The command line: headerOption, countOption and the parse of the words  *)
(* by the option declarations of lines 203-238.                            *)
(***************************************************************************)
\* (previous || 0) + 1
countOption(previous) == previous + 1

\* headerOption, lines 37-51: /^\s*(\S+)\s*: ?(.*)$/ on the header line.
\* The name is the longest match of \S+: the whole first word when blanks
\* and a colon follow it, otherwise the word up to its last colon.
ParseHeader(line) ==
  LET start == SkipChar(line, " ", 1)
      blank == IndexOfFrom(line, " ", start)
      wordEnd == IF blank = 0 THEN Len(line) ELSE blank - 1
      after == SkipChar(line, " ", wordEnd + 1)
      spaced == after > wordEnd + 1 /\ after <= Len(line)
                  /\ SubSeq(line, after, after) = ":"
      inWord == LastIndexOfFrom(line, ":", wordEnd)
      colon == IF spaced THEN after ELSE inWord
      nameEnd == IF spaced THEN wordEnd ELSE inWord - 1
      rest == IF colon < Len(line) /\ SubSeq(line, colon + 1, colon + 1) = " "
              THEN colon + 2 ELSE colon + 1
  IN IF start > Len(line) \/ (~spaced /\ inWord <= start)
     THEN [ok |-> FALSE, name |-> "", value |-> ""]
     ELSE [ok |-> TRUE, name |-> SubSeq(line, start, nameEnd),
           value |-> SubSeq(line, rest, Len(line))]

\* a word that is read as an option: it starts with '-' and is not '-' alone
IsOption(word) == Len(word) > 1 /\ SubSeq(word, 1, 1) = "-"

\* a word of -q and -v flags written behind one dash, as -qvv
IsFlagCluster(word) ==
  /\ Len(word) > 2
  /\ SubSeq(word, 1, 1) = "-"
  /\ \A k \in 2..Len(word) : SubSeq(word, k, k) \in {"q", "v"}

\* the flags of such a word from position k on, each counted by countOption
RECURSIVE CountCluster(_, _, _)
CountCluster(word, k, acc) ==
  IF k > Len(word) THEN acc
  ELSE CountCluster(word, k + 1,
         IF SubSeq(word, k, k) = "q"
         THEN [acc EXCEPT !.quiet = countOption(@)]
         ELSE [acc EXCEPT !.verbose = countOption(@)])

\* the state of the parse: the option values, the positional words, the
\* first unknown option and the error that stopped the parse
ParseStart ==
  [error |-> "", word |-> "", quiet |-> 0, verbose |-> 0, header |-> <<>>,
   url |-> DEFAULT_URL, args |-> <<>>, unknown |-> ""]

\* command.parse over the words: an option that takes a value consumes the
\* next word whatever it is; an option processor that throws stops the parse
RECURSIVE ParseWords(_, _)
ParseWords(words, acc) ==
  IF Len(words) = 0 THEN acc
  ELSE
    LET w == Head(words)
        rest == Tail(words)
    IN IF w = "-q" THEN ParseWords(rest, [acc EXCEPT !.quiet = countOption(@)])
       ELSE IF w = "-v" THEN ParseWords(rest, [acc EXCEPT !.verbose = countOption(@)])
       ELSE IF IsFlagCluster(w) THEN ParseWords(rest, CountCluster(w, 2, acc))
       ELSE IF w = "-H" THEN
         IF Len(rest) = 0 THEN [acc EXCEPT !.error = "optionMissingArgument", !.word = w]
         ELSE IF ~ParseHeader(Head(rest)).ok
              THEN [acc EXCEPT !.error = "invalidOptionArgument", !.word = Head(rest)]
         ELSE ParseWords(Tail(rest),
                [acc EXCEPT !.header = SetHeader(@, ParseHeader(Head(rest)).name,
                                                 ParseHeader(Head(rest)).value)])
       ELSE IF w = "-u" THEN
         IF Len(rest) = 0 THEN [acc EXCEPT !.error = "optionMissingArgument", !.word = w]
         ELSE ParseWords(Tail(rest), [acc EXCEPT !.url = Head(rest)])
       ELSE IF IsOption(w) THEN
         ParseWords(rest, [acc EXCEPT !.unknown = IF @ = "" THEN w ELSE @])
       ELSE ParseWords(rest, [acc EXCEPT !.args = Append(@, w)])

\* command.parse(args), line 241: an unknown option is reported when the
\* words have been read
Parse(words) ==
  LET acc == ParseWords(words, ParseStart)
  IN IF acc.error = "" /\ acc.unknown # ""
     THEN [acc EXCEPT !.error = "unknownOption", !.word = acc.unknown]
     ELSE acc

\* what the parser writes (writeErr, line 207) before it throws
ParseDiagnostic(p) ==
  IF p.error = "unknownOption" THEN "error: unknown option '" \o p.word \o "'\n"
  ELSE IF p.error = "optionMissingArgument"
       THEN "error: option '" \o p.word \o "' argument missing\n"
  ELSE "error: option '-H, --header <header>' argument '" \o p.word
         \o "' is invalid. Header must start with token, then colon.  Got \""
         \o p.word \o "\"\n"

\* the exitCode of the error the parser throws for a usage error
UsageExitCode == 1

\* faulty variant: the exit code of the parser is passed on
ParseExitCodeAsIs(exitCode) == exitCode

\* errParse.exitCode === 0 ? 0 : 3, line 258
ParseExitCode(exitCode) == IF exitCode = 0 THEN 0 ELSE 3

\* validateOpts.request and validateOpts.url, lines 281-282
CmdOptions(header, url) ==
  Options(IF Len(header) > 0 THEN [headers |-> header] ELSE NoRequest, url)

RECURSIVE DispatchWrites(_, _, _, _)
DispatchWrites(paths, v, o, i) ==
  IF i > Len(paths) THEN <<>>
  ELSE ValidateWrites(i, LibraryCall(paths[i]).spec, v, o)
         \o DispatchWrites(paths, v, o, i + 1)

(***************************************************************************)
(* Responses of the validator service and their classification             *)
(* (requestJson, the 'end' handler of the response).                       *)
(***************************************************************************)
Response(statusCode, statusMessage, location, parses, value) ==
  [statusCode |-> statusCode, statusMessage |-> statusMessage,
   location |-> location, parses |-> parses, value |-> value]

Responses ==
  {Response(200, "OK", "", TRUE, r) : r \in Results}
    \cup {Response(200, "OK", "", FALSE, NoResult),
          Response(404, "Not Found", "", FALSE, NoResult),
          Response(301, "Moved Permanently", "http://example.com/", TRUE, ResultEmpty)}

\* the responses a library caller's request is answered with (SpecLib):
\* around the status 300, with and without a status message, a Location
\* header and a body that parses
LibResponses ==
  {Response(200, "OK", "", TRUE, ResultEmpty),
   Response(299, "", "", TRUE, ResultMessages),
   Response(299, "Odd", "http://example.com/", FALSE, NoResult),
   Response(300, "Multiple Choices", "", TRUE, ResultMessages),
   Response(300, "", "", FALSE, NoResult),
   Response(301, "Moved Permanently", "http://example.com/", FALSE, NoResult),
   Response(500, "", "http://example.com/", TRUE, ResultNull)}

\* faulty variant: 300 itself is taken for a success
IsErrorStatusAbove(statusCode) == statusCode > 300

\* res.statusCode >= 300
IsErrorStatus(statusCode) == statusCode >= 300

HttpErrorMessage(res) ==
  "HTTP " \o ToString(res.statusCode)
    \o (IF res.statusMessage # "" THEN ": " \o res.statusMessage ELSE "")
    \o (IF res.location # "" THEN ": " \o res.location ELSE "")

ParseError ==
  Error("SyntaxError", "Error parsing server response as JSON: Unexpected token")

\* faulty variant: a body that does not parse is not reported
JsonParseErrorNone(res) == NoError

\* lines 349-355: the error of JSON.parse(resBody.toString()), if it throws
JsonParseError(res) == IF res.parses THEN NoError ELSE ParseError

\* err.body, line 377: the parsed body if there is one, the raw body otherwise
ErrorBody(res) ==
  IF res.parses THEN [parsed |-> TRUE, value |-> res.value]
  ELSE [parsed |-> FALSE, value |-> NoResult]

\* lines 373-377: the response is attached to the error
WithResponse(err, res) ==
  [isError |-> TRUE, name |-> err.name, message |-> err.message,
   statusCode |-> res.statusCode, statusMessage |-> res.statusMessage,
   location |-> res.location, body |-> ErrorBody(res)]

\* the error the 'end' handler calls back with, NoError if it calls back a result
ResponseErr(res) ==
  LET err == IF IsErrorStatus(res.statusCode)
             THEN Error("Error", HttpErrorMessage(res))
             ELSE JsonParseError(res)
  IN IF err.isError THEN WithResponse(err, res) ELSE NoError

(***************************************************************************)
(* Initial state: a command line and an environment.                       *)
(***************************************************************************)
RECURSIVE SeqsUpTo(_, _)
SeqsUpTo(S, n) ==
  IF n = 0 THEN {<<>>}
  ELSE LET shorter == SeqsUpTo(S, n - 1)
       IN shorter \cup {Append(q, x) : q \in shorter, x \in S}

\* the word w, n times
Times(w, n) == [k \in 1..n |-> w]

\* the words a command line is made of (SpecArgs): the options, header
\* lines, a URL, a path and '-'
Words ==
  {"-q", "-v", "-qvv", "-H", "-u", "--bogus", "N: v", "X:a:b", "http://h",
   "notaurl", "file1", "-"}

\* the request options of a library caller (SpecLib)
HeaderSets ==
  {<<>>,
   <<Header("Content-Type", "text/plain")>>,
   <<Header("content-TYPE", "")>>,
   <<Header("content-type", "a/b"), Header("Content-Type", "c/d")>>,
   <<Header("accept", "text/html"), Header("X-A", "1")>>,
   <<Header("X-A", "1"), Header("x-a", "2"), Header("USER-AGENT", "me")>>}
Requests ==
  {NoRequest, [method |-> "GET"], [body |-> "other"],
   [protocol |-> "ftp:"], [protocol |-> "http:"]}
    \cup {[headers |-> h] : h \in HeaderSets}
Urls == {"", "ftp://example.com/", "notaurl"}
LibOptions == {Options(r, u) : r \in Requests, u \in Urls}

\* the state before the entry point runs, common to all specifications
InitFlags ==
  /\ nQuiet \in 0..MaxFlags
  /\ nVerbose \in 0..(MaxFlags - nQuiet)

InitRun ==
  /\ faults = MaxFaults
  /\ pc = "start"
  /\ specPaths = <<>>
  /\ verbosity = 0
  /\ calls = <<>>
  /\ call = <<>>
  /\ hadError = FALSE
  /\ hadInvalid = FALSE
  /\ numValidated = 0
  /\ routed = <<>>
  /\ log = <<>>
  /\ delivered = <<>>

\* a command line of -q and -v options and positional arguments, parsed
InitWith(positionals) ==
  /\ args \in positionals
  /\ InitFlags
  /\ InitRun
  /\ argsType = "array"
  /\ libArgs = "ok"
  /\ argv = Times("-q", nQuiet) \o Times("-v", nVerbose) \o args
  /\ opts = CmdOptions(<<>>, DEFAULT_URL)

Init == InitWith(SeqsUpTo(Paths, MaxArgs))

\* a command line of positional arguments at the default verbosity, with
\* and without a -H option, parsed
InitOwn ==
  /\ args \in SeqsUpTo(Paths, MaxArgs)
  /\ nQuiet = 0
  /\ nVerbose = 0
  /\ InitRun
  /\ argsType = "array"
  /\ libArgs = "ok"
  /\ opts \in {CmdOptions(h, DEFAULT_URL) : h \in {<<>>, <<Header("X-A", "1")>>}}
  /\ argv = (IF Has(opts.request, "headers") THEN <<"-H", "X-A: 1">> ELSE <<>>)
              \o args
InitCmd == InitWith(SeqsUpTo(CmdPaths, MaxCmdArgs))

\* any value passed as args; nothing is parsed yet
InitArgs ==
  /\ argsType \in {"array", "short", "other"}
  /\ libArgs = "ok"
  /\ argv \in IF argsType = "array" THEN SeqsUpTo(Words, MaxArgv) ELSE {<<>>}
  /\ args = <<>>
  /\ opts = CmdOptions(<<>>, DEFAULT_URL)
  /\ nQuiet = 0
  /\ nVerbose = 0
  /\ InitRun

\* the header lines of a command line that gives -H twice (SpecRepeat):
\* spellings of Accept and of X-A, and another name
RepeatedLines ==
  {"accept: a", "Accept: b", "ACCEPT:c", "X-A: 1", "x-a: 2", "User-Agent: me"}

\* a command line with two -H options and positional arguments; nothing is
\* parsed yet
InitRepeat ==
  /\ argsType = "array"
  /\ libArgs = "ok"
  /\ argv \in {<<"-H", a, "-H", b>> \o t :
                a \in RepeatedLines, b \in RepeatedLines,
                t \in SeqsUpTo(Paths, MaxArgs)}
  /\ args = <<>>
  /\ opts = CmdOptions(<<>>, DEFAULT_URL)
  /\ nQuiet = 0
  /\ nVerbose = 0
  /\ InitRun

\* a library caller: one spec stream, any options; or a spec that is no
\* string, Uint8Array or stream (passed to validate), options that are no
\* object, or an options.err without write
InitLib ==
  /\ argsType = "array"
  /\ libArgs \in {"ok", "spec", "options", "err"}
  /\ argv = <<>>
  /\ args \in IF libArgs = "spec" THEN {<<"-">>} ELSE {<<p>> : p \in LibPaths}
  /\ opts \in IF libArgs = "options" THEN {Options(NoRequest, "")} ELSE LibOptions
  /\ InitFlags
  /\ InitRun

(***************************************************************************)
(* Actions.                                                                *)
(***************************************************************************)
Targets == 1..Len(specPaths)

\* faulty variant: the loop dispatches the first target and leaves the
\* others for later
DispatchLoopFirst(paths) == <<paths[1]>>

\* for (const specPath of specPaths), lines 109-113: the targets dispatched
\* when the loop ends.  The body makes one call and waits for nothing
DispatchLoop(paths) == paths

\* lines 264-286 for the parsed command line, with the dispatch loop of
\* validateAll (lines 75-114) and the synchronous part of each validate
\* call.  When new URL(options.url) throws in the first validate call the
\* exception leaves validateAll and swaggerSpecValidatorCmd.
Dispatch(positional, v, o) ==
  LET paths == TargetList(positional)
      notice == IF Len(positional) = 0 /\ v > 1
                THEN <<Write("out", "cmd", 0, StdinNotice)>> ELSE <<>>
  IN /\ verbosity' = v
     /\ specPaths' = paths
     /\ routed' = [i \in 1..Len(paths) |-> <<>>]
     /\ IF UrlThrows(o)
        THEN /\ calls' = <<LibraryCall(paths[1])>>
             /\ call' = <<>>
             /\ log' = notice
             /\ pc' = "threw"
        ELSE /\ calls' = [i \in 1..Len(DispatchLoop(paths)) |->
                            LibraryCall(paths[i])]
             /\ call' = [i \in 1..Len(DispatchLoop(paths)) |->
                           NewCall(LibraryCall(paths[i]).spec, o)]
             /\ log' = notice \o DispatchWrites(paths, v, o, 1)
             /\ pc' = "running"

\* swaggerSpecValidatorCmd after argument parsing (lines 264-286), with the
\* dispatch loop of validateAll (lines 75-114) and the synchronous part of
\* each validate call
Cmd ==
  /\ pc = "start"
  /\ Dispatch(args, Verbosity(nVerbose, nQuiet), opts)
  /\ UNCHANGED <<inputVars, faults, hadError, hadInvalid, numValidated, delivered>>

\* swaggerSpecValidatorCmd(args, options, callback), lines 145-287, with
\* the callback it schedules for the next tick when it has nothing to dispatch
CmdLine ==
  /\ pc = "start"
  /\ IF argsType # "array"
     THEN \* lines 166-170 and 195-199: callback(err)
          /\ pc' = "rejected"
          /\ UNCHANGED <<args, nQuiet, nVerbose, opts, specPaths, verbosity,
                         calls, call, routed, log, delivered>>
     ELSE IF Parse(argv).error # ""
     THEN \* lines 242-262: callback(null, exitCode)
          /\ log' = <<Write("err", "cmd", 0, ParseDiagnostic(Parse(argv)))>>
          /\ delivered' = <<ParseExitCode(UsageExitCode)>>
          /\ pc' = "complete"
          /\ UNCHANGED <<args, nQuiet, nVerbose, opts, specPaths, verbosity,
                         calls, call, routed>>
     ELSE LET p == Parse(argv)
          IN /\ args' = p.args
             /\ nQuiet' = p.quiet
             /\ nVerbose' = p.verbose
             /\ opts' = CmdOptions(p.header, p.url)
             /\ Dispatch(p.args, Verbosity(p.verbose, p.quiet),
                         CmdOptions(p.header, p.url))
             /\ UNCHANGED delivered
  /\ UNCHANGED <<argsType, libArgs, argv, faults, hadError, hadInvalid,
                 numValidated>>

\* validate(spec, options, callback) or validateFile(specPath, options,
\* callback) called by another caller than the command, up to its return
Validate ==
  /\ pc = "start"
  /\ LET v == Verbosity(nVerbose, nQuiet)
         c == IF libArgs = "spec" THEN [fn |-> "validate", spec |-> NotASpec]
              ELSE LibraryCall(args[1])
     IN /\ verbosity' = v
        /\ specPaths' = args
        /\ calls' = <<c>>
        /\ routed' = <<<<>>>>
        /\ IF TypeCheck(libArgs).isError
           THEN \* lines 528-531: callback(err) is queued, validate returns
                /\ call' = <<>>
                /\ log' = <<>>
                /\ pc' = "invalid"
           ELSE IF UrlThrows(opts)
           THEN /\ call' = <<>>
                /\ log' = <<>>
                /\ pc' = "threw"
           ELSE /\ call' = <<NewCall(c.spec, opts)>>
                /\ log' = ValidateWrites(1, c.spec, v, opts)
                /\ pc' = "lib"
  /\ UNCHANGED <<inputVars, faults, hadError, hadInvalid, numValidated, delivered>>

\* queueMicrotask(() => callback(err)), line 529: the callback of a call
\* with an argument of invalid type gets the error
Reject ==
  /\ pc = "invalid"
  /\ routed' = [routed EXCEPT ![1] = Append(@, Routed(TypeCheck(libArgs), NoResult))]
  /\ pc' = "rejected"
  /\ UNCHANGED <<inputVars, faults, specPaths, verbosity, calls, call,
                 hadError, hadInvalid, numValidated, log, delivered>>

\* the callback of another caller than the command: the outcome is kept
Record(i, err, result) ==
  /\ routed' = [routed EXCEPT ![i] = Append(@, Routed(err, result))]
  /\ UNCHANGED <<hadError, hadInvalid, numValidated, log, delivered, pc>>

\* callback.apply(this, args), line 556
Callback(i, err, result) ==
  IF pc = "lib" THEN Record(i, err, result) ELSE onResult(i, err, result)

\* faulty variant: the guard is missing
ShouldCallAlways(calledBack) == TRUE

\* if (!calledBack), line 554
ShouldCall(calledBack) == ~calledBack

\* faulty variant: one calledBack flag is shared by all calls
callbackOnceShared(i, err, result) ==
  IF \A j \in 1..Len(call) : ~call[j].calledBack
  THEN Callback(i, err, result)
  ELSE UNCHANGED batchVars

\* callbackOnce(err, result) of call i (lines 552-558); the caller sets calledBack
callbackOnce(i, err, result) ==
  IF ShouldCall(call[i].calledBack)
  THEN Callback(i, err, result)
  ELSE UNCHANGED batchVars

Alive == pc \in {"running", "complete", "lib"}

\* requestJson(reqUrl, reqOpts, callbackOnce) up to its return, lines
\* 318-397, for call i of the calls in state c: the request is created and
\* its body sent or piped, unless the protocol has no transport
requestJson(i, c) ==
  IF SupportedProtocol(c[i].protocol)
  THEN /\ call' = [c EXCEPT ![i] = [@ EXCEPT !.stage = "sent"]]
       /\ UNCHANGED batchVars
  ELSE /\ call' = [c EXCEPT ![i] =
            [@ EXCEPT !.stage = "refused", !.calledBack = TRUE]]
       /\ callbackOnce(i, ProtocolError(c[i].protocol), NoResult)

\* a continuation of an already resolved promise is queued: it runs before
\* any I/O event is delivered
MicrotaskPending == \E i \in Targets : call[i].stage = "typed"

\* reqOpts.headers['Content-Type'] = contentType of call i (line 574), as
\* the headers of call j show it: the property is set on the object the
\* headers of call i are
WriteContentType(i, j) ==
  IF /\ ~call[i].skipped
     /\ j = i \/ (call[i].headersOf = "request" /\ call[j].headersOf = "request")
  THEN SetHeader(call[j].headers, "Content-Type", call[i].contentType)
  ELSE call[j].headers

\* contentInfoP.then (lines 570-582): the content type that was resolved,
\* if any, is declared, content that was read becomes the body, and
\* requestJson runs up to its return
Then(i) ==
  /\ Alive
  /\ call[i].stage = "typed"
  /\ \A j \in Targets : j < i => call[j].stage # "typed"
  /\ requestJson(i,
       [j \in 1..Len(call) |->
          [call[j] EXCEPT
             !.headers = WriteContentType(i, j),
             !.body = IF j = i /\ call[i].specContent \in {"json", "yaml"}
                      THEN "buffer" ELSE @]])
  /\ opts' = IF ~call[i].skipped /\ call[i].headersOf = "request"
             THEN [opts EXCEPT !.request =
                     [@ EXCEPT !.headers =
                        SetHeader(@, "Content-Type", call[i].contentType)]]
             ELSE opts
  /\ UNCHANGED <<argsType, libArgs, argv, args, nQuiet, nVerbose, faults,
                 specPaths, verbosity, calls>>

\* 'end' of a sniffed stream: getStreamData resolves with the content and
\* the content type is guessed from it (lines 454-458); contentInfoP is
\* resolved
StreamEnd(i, content) ==
  /\ Alive /\ ~MicrotaskPending
  /\ call[i].stage = "sniff"
  /\ call' = [call EXCEPT ![i] =
       [@ EXCEPT !.stage = "typed",
                 !.contentType = guessSpecDataContentType(content),
                 !.specContent = content,
                 !.body = "ended"]]
  /\ log' = log \o (IF ~ParsesAsJson(content) /\ ShowNotice(verbosity)
                    THEN <<Write("err", "validate", i, AssumeYamlNotice)>>
                    ELSE <<>>)
  /\ UNCHANGED <<inputVars, faults, specPaths, verbosity, calls,
                 hadError, hadInvalid, numValidated, routed, delivered, pc>>

\* 'error' of a sniffed stream: getStreamData rejects, .catch(callbackOnce)
StreamError(i) ==
  /\ Alive /\ ~MicrotaskPending
  /\ call[i].stage = "sniff"
  /\ faults > 0
  /\ faults' = faults - 1
  /\ call' = [call EXCEPT ![i] =
       [@ EXCEPT !.stage = "rejected", !.calledBack = TRUE]]
  /\ callbackOnce(i, StreamFailure, NoResult)
  /\ UNCHANGED <<inputVars, specPaths, verbosity, calls>>

\* an 'error' listener is attached to the spec stream of a call in state c:
\* the one getStreamData attaches when the stream is read (line 301, removed
\* when it has run), or the one requestJson attaches before it pipes the
\* stream into the request (lines 391-394)
Listening(c) ==
  \/ c.read /\ c.stage # "rejected"
  \/ c.stage \in {"sent", "resp", "closed"} /\ c.body \in {"stream", "ended"}

\* 'error' of a stream the caller passed to validate, emitted after validate
\* returned and before the continuation of contentInfoP has run (by the
\* caller, or queued with process.nextTick, which runs before promise
\* jobs): no listener is attached, the error is thrown as an uncaught
\* exception
UnhandledError(i) ==
  /\ pc = "lib"
  /\ calls[i].fn = "validate"
  /\ call[i].stage = "typed"
  /\ ~Listening(call[i])
  /\ faults > 0
  /\ faults' = faults - 1
  /\ pc' = "crashed"
  /\ UNCHANGED <<inputVars, specPaths, verbosity, calls, call, hadError,
                 hadInvalid, numValidated, routed, log, delivered>>

\* 'error' of the stream piped into the request (lines 391-394):
\* req.abort(); callback(err)
BodyError(i) ==
  /\ Alive /\ ~MicrotaskPending
  /\ call[i].stage \in {"sent", "resp"}
  /\ call[i].body = "stream"
  /\ ~call[i].bodyErr
  /\ faults > 0
  /\ faults' = faults - 1
  /\ call' = [call EXCEPT ![i] =
       [@ EXCEPT !.bodyErr = TRUE, !.aborted = TRUE, !.calledBack = TRUE]]
  /\ callbackOnce(i, StreamFailure, NoResult)
  /\ UNCHANGED <<inputVars, specPaths, verbosity, calls>>

\* 'error' of the request (line 341, once): raised by the transport, or by
\* req.abort()
ReqError(i) ==
  /\ Alive /\ ~MicrotaskPending
  /\ call[i].stage \in {"sent", "resp"}
  /\ ~call[i].reqErr
  /\ call[i].aborted \/ faults > 0
  /\ faults' = IF call[i].aborted THEN faults ELSE faults - 1
  /\ call' = [call EXCEPT ![i] =
       [@ EXCEPT !.reqErr = TRUE, !.calledBack = TRUE]]
  /\ callbackOnce(i, RequestFailure, NoResult)
  /\ UNCHANGED <<inputVars, specPaths, verbosity, calls>>

\* 'response' of the request (lines 342-345): the handlers of the response
\* are registered
GotResponse(i) ==
  /\ Alive /\ ~MicrotaskPending
  /\ call[i].stage = "sent"
  /\ call[i].body # "ended"
  /\ ~call[i].reqErr /\ ~call[i].aborted
  /\ call' = [call EXCEPT ![i] = [@ EXCEPT !.stage = "resp"]]
  /\ UNCHANGED <<inputVars, faults, specPaths, verbosity, calls, batchVars>>

\* 'error' of the response (line 343)
ResError(i) ==
  /\ Alive /\ ~MicrotaskPending
  /\ call[i].stage = "resp"
  /\ ~call[i].resErr
  /\ faults > 0
  /\ faults' = faults - 1
  /\ call' = [call EXCEPT ![i] =
       [@ EXCEPT !.resErr = TRUE, !.calledBack = TRUE]]
  /\ callbackOnce(i, ResponseFailure, NoResult)
  /\ UNCHANGED <<inputVars, specPaths, verbosity, calls>>

\* 'end' of the response (lines 346-384)
ResEnd(i, res) ==
  /\ Alive /\ ~MicrotaskPending
  /\ call[i].stage = "resp"
  /\ call' = [call EXCEPT ![i] =
       [@ EXCEPT !.stage = "closed", !.res = res, !.calledBack = TRUE]]
  /\ callbackOnce(i, ResponseErr(res),
                  IF ResponseErr(res).isError THEN NoResult ELSE res.value)
  /\ UNCHANGED <<inputVars, faults, specPaths, verbosity, calls>>

Next ==
  \/ Cmd
  \/ \E i \in Targets : Then(i)
  \/ \E i \in Targets, content \in Contents : StreamEnd(i, content)
  \/ \E i \in Targets : StreamError(i)
  \/ \E i \in Targets : BodyError(i)
  \/ \E i \in Targets : ReqError(i)
  \/ \E i \in Targets : GotResponse(i)
  \/ \E i \in Targets : ResError(i)
  \/ \E i \in Targets, res \in Responses : ResEnd(i, res)

Spec == Init /\ [][Next]_vars

\* the steps the scheduling makes for a dispatched batch when they are due:
\* the continuation of a resolved promise runs, a stream that is read ends,
\* a request that can be answered gets its response, and the response ends
Progress ==
  \E i \in Targets :
    \/ Then(i)
    \/ \E content \in Contents : StreamEnd(i, content)
    \/ GotResponse(i)
    \/ \E res \in Responses : ResEnd(i, res)

\* the batch under fair scheduling; the 'error' events stay up to the
\* environment
Fairness == WF_vars(Progress)

SpecFair == Init /\ [][Next]_vars /\ Fairness

\* the batch with the headers of a caller, which every validate call of
\* the batch is given in the same options object (lines 279-285)
SpecOwn == InitOwn /\ [][Next]_vars

\* the command up to the return of swaggerSpecValidatorCmd, over more
\* argument lists
SpecCmd == InitCmd /\ [][Cmd]_vars

\* the command from the raw argument list to its return
SpecArgs == InitArgs /\ [][CmdLine]_vars

\* the command for a command line that gives -H twice
SpecRepeat == InitRepeat /\ [][CmdLine]_vars

\* one call of the library by another caller, to its end
NextLib ==
  \/ Validate
  \/ Reject
  \/ \E i \in Targets : UnhandledError(i)
  \/ \E i \in Targets : Then(i)
  \/ \E i \in Targets, content \in Contents : StreamEnd(i, content)
  \/ \E i \in Targets : StreamError(i)
  \/ \E i \in Targets : BodyError(i)
  \/ \E i \in Targets : ReqError(i)
  \/ \E i \in Targets : GotResponse(i)
  \/ \E i \in Targets : ResError(i)
  \/ \E i \in Targets, res \in LibResponses : ResEnd(i, res)

SpecLib == InitLib /\ [][NextLib]_vars

(***************************************************************************)
(* Properties.                                                             *)
(***************************************************************************)
Range(seq) == {seq[k] : k \in 1..Len(seq)}

\* the number of diagnostic messages a result carries
MessageCount(result) ==
  (IF result.messages.has THEN Len(result.messages.items) ELSE 0)
    + (IF result.schemaValidationMessages.has
       THEN Len(result.schemaValidationMessages.items) ELSE 0)

\* what onResult was invoked with: an error, a result from which the message
\* list cannot be read, a result with messages, a result without
IsFailure(r) == r.err.isError
IsUnreadable(r) == ~r.err.isError /\ r.result.kind = "null"
IsInvalid(r) == ~r.err.isError /\ r.result.kind # "null" /\ MessageCount(r.result) > 0
IsValid(r) == ~r.err.isError /\ r.result.kind # "null" /\ MessageCount(r.result) = 0

\* the state of a target: Pending until a result of it has been routed
Failed(i) == \E k \in 1..Len(routed[i]) : IsFailure(routed[i][k])
Succeeded(i) ==
  \E k \in 1..Len(routed[i]) : IsInvalid(routed[i][k]) \/ IsValid(routed[i][k])
Pending(i) == ~Failed(i) /\ ~Succeeded(i)
SucceededInvalid(i) == \E k \in 1..Len(routed[i]) : IsInvalid(routed[i][k])
SucceededValid(i) == \E k \in 1..Len(routed[i]) : IsValid(routed[i][k])

\* C1: every exit code validateAll delivers is 2 if some target completed
\* with an error, otherwise 1 if some target succeeded with a non-empty
\* message list, otherwise 0.
C1_ExitCode ==
  \A k \in 1..Len(delivered) :
    delivered[k] = IF \E i \in Targets : Failed(i) THEN 2
                   ELSE IF \E i \in Targets : SucceededInvalid(i) THEN 1
                   ELSE 0

\* a batch of two targets delivered 1: one valid, one invalid, none failed
C1_Witness ==
  /\ delivered = <<1>>
  /\ Len(specPaths) = 2
  /\ \E i \in Targets : SucceededValid(i)

\* C2: the completion callback is invoked at most once, and only when every
\* target is Succeeded or Failed, never while a target is Pending.
C2_CompleteOnlyWhenAllTerminal ==
  /\ Len(delivered) <= 1
  /\ (delivered # <<>>) => \A i \in Targets : ~Pending(i)

\* a batch of two targets completed, and events of a call arrived after it
C2_Witness ==
  /\ Len(delivered) = 1
  /\ Len(specPaths) = 2
  /\ \E i \in Targets : call[i].bodyErr /\ call[i].reqErr

\* the library call that validates the literal string s
CallsFor(s) ==
  {i \in 1..Len(calls) :
     IF s = "-" THEN calls[i].fn = "validate"
     ELSE calls[i].fn = "validateFile" /\ calls[i].spec = s}

\* C3: the number of validations dispatched is the number of distinct literal
\* strings among the positional arguments, each distinct string is dispatched
\* exactly once, and strings that differ literally are not merged.
C3_DispatchDistinct ==
  (pc # "start" /\ Len(args) > 0) =>
    /\ Len(calls) = Cardinality(Range(args))
    /\ \A s \in Range(args) : Cardinality(CallsFor(s)) = 1

\* three arguments, two of them the same string, and another that names the
\* same file differently: two validations
C3_Witness ==
  /\ pc # "start"
  /\ args = <<"file1", "./file1", "file1">>
  /\ Len(calls) = 2

\* C4: the callback of one validate call is invoked at most once, whatever
\* events report an outcome and in whatever order.
C4_CallbackOnce == \A i \in Targets : Len(routed[i]) <= 1

\* a body-stream error, then the request error of the aborted request: one
\* invocation
C4_Witness ==
  \E i \in Targets :
    /\ call[i].bodyErr /\ call[i].aborted /\ call[i].reqErr
    /\ Len(routed[i]) = 1

\* the writes onResult made for target i, in order
OnResultWrites(i) ==
  SelectSeq(log, LAMBDA w : w.by = "onResult" /\ w.src = i)

\* the positions in the log of the writes onResult made for target i
OnResultAt(i) ==
  {k \in 1..Len(log) : log[k].by = "onResult" /\ log[k].src = i}

AllSucceededValid ==
  /\ pc # "start"
  /\ \A i \in Targets : Len(routed[i]) = 1 /\ IsValid(routed[i][1])

\* C5: when every target succeeds with an empty message list the exit code
\* is 0, the confirmation line is written to the status stream iff
\* verbosity >= 0, and the batch writes nothing to the output stream.
C5_AllValid ==
  AllSucceededValid =>
    /\ delivered = <<0>>
    /\ Cardinality({k \in 1..Len(log) :
                      /\ log[k].stream = "err"
                      /\ log[k].text = "All OpenAPI/Swagger specs are valid.\n"})
         = IF verbosity >= 0 THEN 1 ELSE 0
    /\ \A k \in 1..Len(log) : log[k].stream = "out" => log[k].by = "cmd"

\* two targets, both valid, at the default verbosity
C5_Witness ==
  /\ AllSucceededValid
  /\ Len(specPaths) = 2
  /\ verbosity = 0

\* C6: when one target completed with an error and another with a non-empty
\* message list, the exit code is 2 in whatever order they completed.
C6_ErrorDominates ==
  ( /\ pc # "start"
    /\ \A i \in Targets : ~Pending(i)
    /\ \E i \in Targets : Failed(i)
    /\ \E i \in Targets : SucceededInvalid(i) )
  => delivered = <<2>>

\* the error completed first, the invalid result after it
C6_Witness ==
  /\ delivered = <<2>>
  /\ \E i, j \in Targets :
       /\ Failed(i) /\ SucceededInvalid(j)
       /\ \E a \in OnResultAt(i), b \in OnResultAt(j) : a < b

\* C7: every target of the list is attempted by exactly one library call,
\* and whatever errors other targets completed with, all targets are
\* dispatched and a call that called back has had its result routed.
C7_AttemptedOnceAndRouted ==
  pc # "start" =>
    /\ Len(calls) = Len(specPaths)
    /\ \A i \in Targets :
         /\ \/ calls[i].fn = "validate" /\ specPaths[i] = "-"
            \/ calls[i].fn = "validateFile" /\ calls[i].spec = specPaths[i]
         /\ \A j \in Targets : specPaths[j] = specPaths[i] => j = i
         /\ call[i].calledBack => Len(routed[i]) >= 1

\* the first target failed, the second was routed after it and succeeded
C7_Witness ==
  /\ Len(specPaths) = 2
  /\ Failed(1) /\ Succeeded(2)
  /\ \E a \in OnResultAt(1), b \in OnResultAt(2) : a < b

\* C8: the input stream is handed to validate exactly once when the
\* positional list is empty or contains '-', never otherwise, and every other
\* string is dispatched to validateFile as a path.
C8_StdinAtMostOnce ==
  pc # "start" =>
    LET stdinCalls == {i \in 1..Len(calls) : calls[i].spec = Stdin}
    IN /\ Cardinality(stdinCalls)
            = IF Len(args) = 0 \/ "-" \in Range(args) THEN 1 ELSE 0
       /\ \A i \in 1..Len(calls) : (calls[i].fn = "validate") = (i \in stdinCalls)
       /\ \A s \in Range(args) \ {"-"} :
            \E i \in 1..Len(calls) : calls[i] = [fn |-> "validateFile", spec |-> s]

\* '-' twice and './-': one validation of the input stream, one of the file
C8_Witness ==
  /\ pc # "start"
  /\ args = <<"-", "./-", "-">>
  /\ Len(calls) = 2

\* C9: for a target that completed with an error, onResult writes
\* '<target>: <error>' to the status stream iff verbosity >= -1, then the
\* stack iff verbosity >= 1, and nothing to the output stream.
C9_ErrorRouting ==
  \A i \in Targets :
    (Len(routed[i]) = 1 /\ IsFailure(routed[i][1])) =>
      LET err == routed[i][1].err
          line == [stream |-> "err", by |-> "onResult", src |-> i,
                   text |-> specPaths[i] \o ": " \o err.name \o ": "
                              \o err.message \o "\n"]
          stack == [stream |-> "err", by |-> "onResult", src |-> i,
                    text |-> ErrorStack(err)]
      IN OnResultWrites(i)
           = (IF verbosity >= -1 THEN <<line>> ELSE <<>>)
               \o (IF verbosity >= 1 THEN <<stack>> ELSE <<>>)

\* an error routed at verbosity 1: the line and the stack
C9_Witness ==
  \E i \in Targets :
    /\ Failed(i)
    /\ verbosity = 1
    /\ Len(OnResultWrites(i)) = 2

\* the messages of a result, 'messages' first, then the schema messages
ExpectedMessages(result) ==
  (IF result.messages.has THEN result.messages.items ELSE <<>>)
    \o (IF result.schemaValidationMessages.has
        THEN [k \in 1..Len(result.schemaValidationMessages.items) |->
                result.schemaValidationMessages.items[k].level \o ": "
                  \o result.schemaValidationMessages.items[k].message]
        ELSE <<>>)

\* every message on a line of its own, prefixed with the target
RECURSIVE PrefixedLines(_, _)
PrefixedLines(target, messages) ==
  IF Len(messages) = 0 THEN ""
  ELSE target \o ": " \o messages[1] \o "\n"
         \o PrefixedLines(target, Tail(messages))

\* C10: a result with a non-empty message list marks the batch invalid at
\* any verbosity and, iff verbosity >= 0, is written as one write to the
\* output stream holding every message in order, prefixed with the target;
\* a result with an empty list writes nothing and marks nothing.
C10_MessageRouting ==
  /\ hadInvalid = \E i \in Targets : SucceededInvalid(i)
  /\ \A i \in Targets :
       (Len(routed[i]) = 1 /\ IsInvalid(routed[i][1])) =>
         OnResultWrites(i)
           = IF verbosity >= 0
             THEN <<[stream |-> "out", by |-> "onResult", src |-> i,
                     text |-> PrefixedLines(specPaths[i],
                                ExpectedMessages(routed[i][1].result))]>>
             ELSE <<>>
  /\ \A i \in Targets :
       (Len(routed[i]) = 1 /\ IsValid(routed[i][1])) => OnResultWrites(i) = <<>>

\* a result with two messages and a schema message, written
C10_Witness ==
  \E i \in Targets :
    /\ Len(routed[i]) = 1
    /\ routed[i][1].result = ResultBoth /\ ~routed[i][1].err.isError
    /\ Len(OnResultWrites(i)) = 1

\* a word of the form 'name:...': a colon after at least one character,
\* with no blank before it
HasNameColon(word) ==
  \E k \in 2..Len(word) :
    /\ SubSeq(word, k, k) = ":"
    /\ \A j \in 1..(k - 1) : SubSeq(word, j, j) # " "

\* the command line holds a usage error: an option that is not declared, or
\* -H or -u as the last word, or a -H value that is not of the form 'name:'
RECURSIVE Malformed(_)
Malformed(words) ==
  IF Len(words) = 0 THEN FALSE
  ELSE IF words[1] \in {"-H", "-u"}
       THEN \/ Len(words) = 1
            \/ words[1] = "-H" /\ ~HasNameColon(words[2])
            \/ Malformed(SubSeq(words, 3, Len(words)))
  ELSE \/ words[1] \notin {"-q", "-v", "-qvv", "-"} /\ SubSeq(words[1], 1, 1) = "-"
       \/ Malformed(Tail(words))

\* C11: for every command line with a usage error (an unknown flag, a flag
\* without its required value, a -H value that is not 'name:...') the exit
\* code is 3, one diagnostic is written to the status stream, and neither
\* validate nor validateFile is called.
C11_UsageErrorExits3 ==
  (pc # "start" /\ argsType = "array" /\ Malformed(argv)) =>
    /\ pc = "complete"
    /\ delivered = <<3>>
    /\ Len(log) = 1 /\ log[1].stream = "err"
    /\ calls = <<>>
    /\ call = <<>>

\* a path, then -H without a value
C11_Witness ==
  /\ argv = <<"file1", "-H">>
  /\ delivered = <<3>>

\* C12: the command's promise is rejected only when args or options have an
\* invalid type (or args has fewer than two elements); every well-typed
\* invocation, whatever its flag values, yields exit codes in {0, 1, 2, 3}.
C12_RejectedOnlyForInvalidTypes ==
  /\ pc \in {"rejected", "threw"} => argsType # "array"
  /\ \A k \in 1..Len(delivered) : delivered[k] \in 0..3

\* the response of call i ended and no other event reported an outcome
Answered(i) ==
  /\ call[i].stage = "closed"
  /\ ~call[i].bodyErr /\ ~call[i].reqErr /\ ~call[i].resErr

\* the response attached to an error: status, headers and the body, parsed
\* if it parses and raw otherwise
CarriesResponse(err, res) ==
  /\ err.statusCode = res.statusCode
  /\ err.statusMessage = res.statusMessage
  /\ err.location = res.location
  /\ err.body.parsed = res.parses
  /\ res.parses => err.body.value = res.value

\* C13: for a response with status < 300 the callback receives (no error,
\* the parsed value) when the body parses as JSON and otherwise an error
\* that reports the parse failure and carries status, headers and the raw
\* body, with no result; an error and a result are never delivered together.
C13_SuccessStatus ==
  \A i \in 1..Len(call) :
    /\ (Answered(i) /\ call[i].res.statusCode < 300) =>
         /\ Len(routed[i]) = 1
         /\ IF call[i].res.parses
            THEN routed[i][1] = [err |-> NoError, result |-> call[i].res.value]
            ELSE /\ routed[i][1].err.isError
                 /\ routed[i][1].err.name = "SyntaxError"
                 /\ SubSeq(routed[i][1].err.message, 1, 38)
                      = "Error parsing server response as JSON:"
                 /\ CarriesResponse(routed[i][1].err, call[i].res)
                 /\ ~routed[i][1].err.body.parsed
    /\ \A k \in 1..Len(routed[i]) :
         routed[i][k].err.isError => routed[i][k].result = NoResult

\* status 299 with a body that does not parse: the parse error
C13_Witness ==
  \E i \in 1..Len(call) :
    /\ Answered(i)
    /\ call[i].res.statusCode = 299 /\ ~call[i].res.parses
    /\ Len(routed[i]) = 1 /\ routed[i][1].err.isError

\* C14: for a response with status >= 300 the callback receives an error and
\* no result whether or not the body parses; the message is 'HTTP <status>',
\* then ': <statusMessage>' if there is one, then ': <Location>' if there is
\* one; the error's body is the parsed JSON if the body parses and the raw
\* body otherwise; no second request is made.
C14_ErrorStatus ==
  \A i \in 1..Len(call) :
    (Answered(i) /\ call[i].res.statusCode >= 300) =>
      LET res == call[i].res
          status == IF res.statusCode = 300 THEN "300"
                    ELSE IF res.statusCode = 301 THEN "301"
                    ELSE IF res.statusCode = 404 THEN "404" ELSE "500"
      IN /\ Len(routed[i]) = 1
         /\ routed[i][1].result = NoResult
         /\ routed[i][1].err.isError
         /\ routed[i][1].err.name = "Error"
         /\ routed[i][1].err.message
              = "HTTP " \o status
                  \o (IF res.statusMessage = "" THEN "" ELSE ": " \o res.statusMessage)
                  \o (IF res.location = "" THEN "" ELSE ": " \o res.location)
         /\ CarriesResponse(routed[i][1].err, res)
         /\ Len(calls) = Len(specPaths)

\* status 300 itself, with a body that parses
C14_Witness ==
  \E i \in 1..Len(call) :
    /\ Answered(i)
    /\ call[i].res.statusCode = 300 /\ call[i].res.parses
    /\ Len(routed[i]) = 1 /\ routed[i][1].err.message = "HTTP 300: Multiple Choices"

\* the protocol the request would use is ftp: the request options name it,
\* or they name none and the URL has it
FtpProtocol ==
  IF "protocol" \in DOMAIN opts.request THEN opts.request.protocol = "ftp:"
  ELSE opts.url = "ftp://example.com/"

RequestBuilt(i) == call[i].stage \in {"sent", "resp", "closed"}

\* C16 as stated: every request validate builds uses the method POST and
\* carries the caller's spec as its body, whatever options.request holds.
C16_AlwaysPost ==
  \A i \in 1..Len(call) :
    RequestBuilt(i) => call[i].method = "POST" /\ call[i].body # "other"

\* C16: every request validate builds uses the method options.request
\* names, POST when it names none, and its body is the caller's spec (the
\* stream, or its content when it was read), never options.request.body.
C16_MethodAndBody ==
  \A i \in 1..Len(call) :
    /\ call[i].method = IF "method" \in DOMAIN opts.request
                        THEN opts.request.method ELSE "POST"
    /\ call[i].body \in {"stream", "ended", "buffer"}
    /\ call[i].body = "buffer" => call[i].specContent \in {"json", "yaml"}
    /\ (RequestBuilt(i) /\ call[i].specContent \in {"json", "yaml"}) =>
         call[i].body = "buffer"
    /\ (call[i].body = "ended") => call[i].read

\* a request built with the method the caller named
C16_Witness ==
  /\ opts.request = [method |-> "GET"]
  /\ \E i \in 1..Len(call) : RequestBuilt(i) /\ call[i].method = "GET"

\* the headers the caller passed, none if it passed no request options
CallerHeaders ==
  IF "headers" \in DOMAIN opts.request THEN opts.request.headers ELSE <<>>

\* the spellings of a header name that occur
AcceptNames == {"Accept", "accept", "ACCEPT"}
UserAgentNames == {"User-Agent", "user-agent", "USER-AGENT"}
ContentTypeNames == {"Content-Type", "content-type", "content-TYPE"}
XANames == {"X-A", "x-a"}
NameClasses == {AcceptNames, UserAgentNames, ContentTypeNames, XANames}

\* the headers of a list whose name is one of the spellings, in order
Named(headers, names) == SelectSeq(headers, LAMBDA h : h.name \in names)

\* C17: the merged headers of a request never hold two names that are equal
\* ignoring case; a name the caller gives replaces the default of that name
\* with the caller's spelling and value; the defaults the caller does not
\* give (Accept, User-Agent) are present.
C17_MergedHeaders ==
  \A i \in 1..Len(call) :
    /\ \A names \in NameClasses : Len(Named(call[i].headers, names)) <= 1
    /\ \A names \in {AcceptNames, UserAgentNames} :
         Named(call[i].headers, names)
           = IF Named(CallerHeaders, names) # <<>>
             THEN <<Named(CallerHeaders, names)[1]>>
             ELSE Named(DEFAULT_HEADERS, names)

\* the caller's 'accept' replaced the default, User-Agent is the default
C17_Witness ==
  \E i \in 1..Len(call) :
    /\ Named(call[i].headers, AcceptNames) = <<[name |-> "accept", value |-> "text/html"]>>
    /\ Len(Named(call[i].headers, UserAgentNames)) = 1
    /\ Named(call[i].headers, {"User-Agent"}) # <<>>

\* the writes validate made for call i, in order
ValidateLog(i) == SelectSeq(log, LAMBDA w : w.by = "validate" /\ w.src = i)

\* C18: when the caller's request headers hold Content-Type in any
\* spelling, the caller's header is sent unchanged and is the only
\* Content-Type header, the spec stream is not read into memory and no
\* diagnostic is written, whatever the path and the verbosity.
C18_CallerContentType ==
  Named(CallerHeaders, ContentTypeNames) # <<>> =>
    \A i \in 1..Len(call) :
      /\ Named(call[i].headers, ContentTypeNames)
           = <<Named(CallerHeaders, ContentTypeNames)[1]>>
      /\ ~call[i].read
      /\ call[i].body = "stream"
      /\ ValidateLog(i) = <<>>

\* a file without a known extension, at verbosity 1, sent with the
\* caller's header in the caller's spelling
C18_Witness ==
  /\ args = <<"d.txt">>
  /\ verbosity = 1
  /\ \E i \in 1..Len(call) :
       /\ RequestBuilt(i)
       /\ Named(call[i].headers, ContentTypeNames)
            = <<[name |-> "content-TYPE", value |-> ""]>>

\* the content type the extension of a path stands for
TypeOfPath(path) ==
  IF path = "a.json" THEN "application/json"
  ELSE IF path \in {"b.YML", "c.Yaml"} THEN "application/yaml"
  ELSE ""

\* C19: for a stream whose path ends in .json the content type declared is
\* application/json, for .yaml and .yml the YAML type, in any letter case
\* and from the extension alone: the stream is not read into memory and no
\* diagnostic is written at any verbosity.
C19_ExtensionDecides ==
  \A i \in 1..Len(call) :
    (Named(CallerHeaders, ContentTypeNames) = <<>> /\ TypeOfPath(calls[i].spec) # "") =>
      /\ call[i].contentType = TypeOfPath(calls[i].spec)
      /\ call[i].stage # "typed" =>
           Named(call[i].headers, ContentTypeNames)
             = <<[name |-> "Content-Type", value |-> TypeOfPath(calls[i].spec)]>>
      /\ ~call[i].read
      /\ call[i].specContent = ""
      /\ ValidateLog(i) = <<>>

\* an upper-case .YML at verbosity 2, sent as YAML
C19_Witness ==
  /\ args = <<"b.YML">>
  /\ verbosity = 2
  /\ \E i \in 1..Len(call) :
       /\ RequestBuilt(i)
       /\ Named(call[i].headers, ContentTypeNames)
            = <<[name |-> "Content-Type", value |-> "application/yaml"]>>

\* the number of line ends in a text
RECURSIVE LineCount(_)
LineCount(text) ==
  IF Len(text) = 0 THEN 0
  ELSE (IF SubSeq(text, 1, 1) = "\n" THEN 1 ELSE 0)
         + LineCount(SubSeq(text, 2, Len(text)))

RECURSIVE LinesOf(_)
LinesOf(writes) ==
  IF Len(writes) = 0 THEN 0
  ELSE LineCount(writes[1].text) + LinesOf(Tail(writes))

\* the content of the file of call i was read and does not parse as JSON
SniffedNotJson(i) ==
  /\ calls[i].spec = "d.txt"
  /\ Named(CallerHeaders, ContentTypeNames) = <<>>
  /\ call[i].specContent \in {"yaml", "empty"}

\* C20 as stated: for a document with an unknown extension whose content
\* does not parse as JSON the content type is the YAML type and exactly one
\* diagnostic line is written to the status stream at verbosity >= 1, none
\* below.
C20_OneDiagnosticLine ==
  \A i \in 1..Len(call) :
    SniffedNotJson(i) =>
      /\ call[i].contentType = "application/yaml"
      /\ \A k \in 1..Len(ValidateLog(i)) : ValidateLog(i)[k].stream = "err"
      /\ LinesOf(ValidateLog(i)) = IF verbosity >= 1 THEN 1 ELSE 0

\* C20: for a document with an unknown extension whose content does not
\* parse as JSON the content type is the YAML type and, at verbosity >= 1,
\* two diagnostics are written to the status stream, the notice that the
\* content is read (two lines) and then the line that YAML is assumed; none
\* at verbosity < 1.
C20_TwoDiagnostics ==
  \A i \in 1..Len(call) :
    SniffedNotJson(i) =>
      /\ call[i].contentType = "application/yaml"
      /\ \A k \in 1..Len(ValidateLog(i)) : ValidateLog(i)[k].stream = "err"
      /\ [k \in 1..Len(ValidateLog(i)) |-> ValidateLog(i)[k].text]
           = IF verbosity >= 1
             THEN <<"Content-Type not specified and can't be inferred from filename.\nReading spec content...\n",
                    "Unable to parse spec content as JSON.  Assuming YAML.\n">>
             ELSE <<>>

\* content that is not JSON, read at verbosity 1
C20_Witness ==
  /\ verbosity = 1
  /\ \E i \in 1..Len(call) :
       /\ SniffedNotJson(i) /\ call[i].specContent = "yaml"
       /\ Len(ValidateLog(i)) = 2

\* the content type the content of a stream stands for
TypeOfContent(content) ==
  IF content = "json" THEN "application/json" ELSE "application/yaml"

\* C21: every request validate sends carries exactly one Content-Type
\* header, names compared ignoring case; its value is the caller's header
\* if the caller gave one, else the type of the extension of the stream's
\* path, else application/json for content that parses as JSON and the YAML
\* type for any other content.
C21_ContentTypePriority ==
  \A i \in 1..Len(call) :
    RequestBuilt(i) =>
      LET sent == Named(call[i].headers, ContentTypeNames)
          caller == Named(CallerHeaders, ContentTypeNames)
      IN /\ Len(sent) = 1
         /\ \A k \in 1..Len(call[i].headers) :
              ToLowerCase(call[i].headers[k].name) = "content-type" =>
                call[i].headers[k].name \in ContentTypeNames
         /\ sent[1].value =
              IF caller # <<>> THEN caller[1].value
              ELSE IF TypeOfPath(calls[i].spec) # ""
                   THEN TypeOfPath(calls[i].spec)
              ELSE TypeOfContent(call[i].specContent)

\* a file without a known extension whose content does not parse as JSON,
\* sent as YAML
C21_Witness ==
  /\ args = <<"d.txt">>
  /\ CallerHeaders = <<>>
  /\ \E i \in 1..Len(call) :
       /\ RequestBuilt(i)
       /\ call[i].specContent = "yaml"
       /\ Named(call[i].headers, ContentTypeNames)
            = <<[name |-> "Content-Type", value |-> "application/yaml"]>>

\* the values given to -H on a command line, in order
RECURSIVE HeaderLines(_)
HeaderLines(words) ==
  IF Len(words) < 2 THEN <<>>
  ELSE IF words[1] = "-H"
       THEN <<words[2]>> \o HeaderLines(SubSeq(words, 3, Len(words)))
  ELSE IF words[1] = "-u" THEN HeaderLines(SubSeq(words, 3, Len(words)))
  ELSE HeaderLines(Tail(words))

\* a line of the form [blanks]name[blanks]':'[one blank]value, name a
\* non-empty run of characters other than blank and colon
IsHeaderLine(line) ==
  LET start == SkipChar(line, " ", 1)
      colon == IndexOfFrom(line, ":", start)
      blank == IndexOfFrom(line, " ", start)
  IN /\ colon > start
     /\ blank = 0 \/ blank > colon \/ SkipChar(line, " ", blank) = colon

\* the header such a line stands for: the name before the first colon
\* without the blanks around it, the value after the first colon without
\* one leading blank
HeaderOfLine(line) ==
  LET start == SkipChar(line, " ", 1)
      colon == IndexOfFrom(line, ":", start)
      blank == IndexOfFrom(line, " ", start)
      nameEnd == IF blank # 0 /\ blank < colon THEN blank - 1 ELSE colon - 1
      rest == IF colon < Len(line) /\ SubSeq(line, colon + 1, colon + 1) = " "
              THEN colon + 2 ELSE colon + 1
  IN Header(SubSeq(line, start, nameEnd), SubSeq(line, rest, Len(line)))

\* C22: for every -H value of the form [blanks]name[blanks]':'[one
\* blank]value the options passed to validation hold a header named name
\* whose value is the text after the first colon less one leading blank,
\* also when the value holds colons; -H values with distinct names are all
\* present.
C22_HeaderFromLine ==
  (argsType = "array" /\ pc \in {"running", "threw"}) =>
    LET lines == HeaderLines(argv)
    IN \A k \in 1..Len(lines) :
         (/\ IsHeaderLine(lines[k])
          /\ \A j \in 1..Len(lines) :
               (j # k /\ IsHeaderLine(lines[j])) =>
                 HeaderOfLine(lines[j]).name # HeaderOfLine(lines[k]).name)
         => \E h \in 1..Len(CallerHeaders) :
              CallerHeaders[h] = HeaderOfLine(lines[k])

NotNamed(headers, names) == SelectSeq(headers, LAMBDA h : h.name \notin names)

\* C24: no step of a batch changes the options, the request options or the
\* request headers of the caller (they stay what the command line gave), or
\* the default headers: the headers of every call are the caller's (which
\* name no default header here) followed by the defaults, and a
\* Content-Type is in the headers of a call only once that call's own
\* content type has been declared, with that call's own value, whatever
\* has been declared for the other targets of the batch.
C24_CallerStructuresUnchanged ==
  /\ opts = CmdOptions(Parse(argv).header, Parse(argv).url)
  /\ \A j \in 1..Len(call) :
       /\ NotNamed(call[j].headers, ContentTypeNames)
            = CallerHeaders \o DEFAULT_HEADERS
       /\ Named(call[j].headers, ContentTypeNames)
            = IF call[j].stage \in {"sniff", "typed", "rejected"} THEN <<>>
              ELSE <<Header("Content-Type", call[j].contentType)>>

\* a batch with a caller's header: the request of a.json has been built
\* with its content type while the input stream is still being read
C24_Witness ==
  /\ CallerHeaders = <<Header("X-A", "1")>>
  /\ \E i, j \in 1..Len(call) :
       /\ calls[i].spec = "a.json" /\ RequestBuilt(i)
       /\ Named(call[i].headers, ContentTypeNames)
            = <<Header("Content-Type", "application/json")>>
       /\ calls[j].spec = Stdin /\ call[j].stage = "sniff"
       /\ Named(call[j].headers, ContentTypeNames) = <<>>

\* the confirmation line is in the log
ConfirmationWritten == \E k \in 1..Len(log) : log[k].text = ValidText

\* C25: while the validation of a target has not completed, every other
\* target whose validation completed has had its result routed when it
\* completed (its output is written and its error or invalid flag is
\* recorded), and the completion callback has not been invoked: there is no
\* exit code and no confirmation line.
C25_RoutedWhilePending ==
  (pc # "start" /\ \E p \in Targets : ~call[p].calledBack) =>
    /\ delivered = <<>>
    /\ ~ConfirmationWritten
    /\ pc # "complete"
    /\ \A i \in Targets :
         call[i].calledBack =>
           /\ Len(routed[i]) = 1
           /\ IsFailure(routed[i][1]) =>
                hadError /\ OnResultWrites(i) = ErrorWrites(i, routed[i][1].err)
           /\ IsInvalid(routed[i][1]) =>
                /\ hadInvalid
                /\ OnResultWrites(i)
                     = MessageWrites(i, ExpectedMessages(routed[i][1].result))
           /\ IsValid(routed[i][1]) => OnResultWrites(i) = <<>>

\* the input stream is still being read; the file was found invalid, its
\* messages are written and the flag is set
C25_Witness ==
  /\ verbosity = 0
  /\ \E p, i \in Targets :
       /\ call[p].stage = "sniff"
       /\ call[i].calledBack /\ SucceededInvalid(i)
       /\ Len(OnResultWrites(i)) = 1
       /\ hadInvalid
       /\ delivered = <<>>

\* the occurrences of the flag letter on a command line: in the words -q,
\* -v and -qvv that are not the value of -H or -u
RECURSIVE Occurrences(_, _)
Occurrences(words, letter) ==
  IF Len(words) = 0 THEN 0
  ELSE IF words[1] \in {"-H", "-u"}
       THEN Occurrences(SubSeq(words, 3, Len(words)), letter)
  ELSE (IF words[1] \in {"-q", "-v", "-qvv"}
        THEN Cardinality({k \in 2..Len(words[1]) :
                            SubSeq(words[1], k, k) = letter})
        ELSE 0)
         + Occurrences(Tail(words), letter)

\* C26: the verbosity passed to validation is the number of -v occurrences
\* less the number of -q occurrences, in whatever order and grouping the
\* flags are given, and is not clamped.
C26_Verbosity ==
  (argsType = "array" /\ pc \in {"running", "threw"}) =>
    verbosity = Occurrences(argv, "v") - Occurrences(argv, "q")

\* three -q: verbosity -3
C26_Witness ==
  /\ argv = <<"-q", "-q", "-q">>
  /\ pc = "running"
  /\ verbosity = 0 - 3

\* C27: the confirmation line is written at most once in a batch, and when
\* it is written it is the last write: every write made for a target
\* precedes it and nothing is written after it.
C27_ConfirmationLast ==
  \A k \in 1..Len(log) :
    log[k].text = ValidText => (k = Len(log) /\ log[k].by = "onResult")

\* two targets, both valid: the notices of the input stream, then the
\* confirmation line
C27_Witness ==
  /\ Len(specPaths) = 2
  /\ pc = "complete"
  /\ Len(log) >= 3
  /\ log[Len(log)].text = ValidText
  /\ \E k \in 1..(Len(log) - 1) : log[k].by = "validate"

\* C28: if the validation of every dispatched target eventually yields a
\* result or an error, the batch eventually completes: the completion
\* callback is invoked with an exit code.
C28_EventuallyComplete ==
  <>(pc # "start" /\ \A i \in Targets : call[i].calledBack)
    => <>(pc = "complete" /\ Len(delivered) = 1)

\* C29: an 'error' of the spec stream emitted after validate has returned
\* is never left without a listener: from the return of validate until the
\* callback of the call has been invoked, an 'error' listener is attached
\* to the spec stream, also while the content type is being resolved.
C29_ErrorListener ==
  /\ pc # "crashed"
  /\ pc = "lib" =>
       \A i \in 1..Len(call) : ~call[i].calledBack => Listening(call[i])

\* the positions of a log form one block
Contiguous(positions) ==
  \A a, b \in positions : \A k \in a..b : k \in positions

\* C30: a target leaves Pending once, for Succeeded or for Failed, and
\* stays there: what was routed for it is never replaced or added to, it
\* counts once in numValidated and its output is one block of the log, so
\* numValidated never exceeds the number of targets.
C30_RoutedOnce ==
  [][/\ \A i \in 1..Len(routed) :
          routed[i] # <<>> =>
            /\ routed'[i] = routed[i]
            /\ OnResultWrites(i)' = OnResultWrites(i)
     /\ \A i \in 1..Len(routed') :
          /\ ~(Failed(i)' /\ Succeeded(i)')
          /\ Contiguous(OnResultAt(i)')
     /\ numValidated' =
          Cardinality({i \in 1..Len(routed') : Failed(i)' \/ Succeeded(i)'})
     /\ numValidated' <= Len(specPaths')]_vars

\* two targets, both counted: one failed with two events that reported an
\* error, the other succeeded
C30_Witness ==
  /\ Len(specPaths) = 2
  /\ numValidated = 2
  /\ \E i, j \in Targets :
       /\ Failed(i) /\ call[i].bodyErr /\ call[i].reqErr
       /\ Succeeded(j)

\* C31: the writes one completion causes (the error line and its stack, or
\* the block of messages) go to one stream and are contiguous: no write
\* made for another target, or by validate, lies between them, in whatever
\* order the targets complete.
C31_NoInterleaving ==
  \A i \in Targets :
    \A a, b \in OnResultAt(i) :
      /\ log[a].stream = log[b].stream
      /\ \A k \in a..b : log[k].by = "onResult" /\ log[k].src = i

\* two targets failed at verbosity 1, the second first: each has its error
\* line and its stack next to each other
C31_Witness ==
  /\ Len(specPaths) = 2
  /\ verbosity = 1
  /\ Failed(1) /\ Failed(2)
  /\ Cardinality(OnResultAt(1)) = 2 /\ Cardinality(OnResultAt(2)) = 2
  /\ \E a \in OnResultAt(2), b \in OnResultAt(1) : a < b

\* C32: the output of a target is written when the target completes, behind
\* everything written before: at the step that routes a target, what the
\* streams hold is kept as it is and every write made for the target lies
\* behind it, so within each stream the per-target outputs are in the order
\* of completion, whatever the order of the command line.
C32_CompletionOrder ==
  [][\A i \in 1..Len(routed) :
       (routed[i] = <<>> /\ routed'[i] # <<>>) =>
         /\ Len(log') >= Len(log)
         /\ SubSeq(log', 1, Len(log)) = log
         /\ \A k \in OnResultAt(i)' : k > Len(log)]_vars

\* both targets have a message block on stdout, the block of the second
\* target in front of the block of the first
C32_Witness ==
  /\ Len(specPaths) = 2
  /\ SucceededInvalid(1) /\ SucceededInvalid(2)
  /\ \E a \in OnResultAt(2), b \in OnResultAt(1) :
       a < b /\ log[a].stream = "out" /\ log[b].stream = "out"

\* C33: the dispatch loop makes the call of every target before it ends:
\* the step that dispatches leaves one call per target of the list, each
\* as validate returned it (resolving its content type or buffering, not
\* called back, nothing routed), and no later step dispatches: the calls a
\* batch has are made before any of them continues.
C33_AllDispatched ==
  [][/\ pc = "start" =>
          /\ pc' = "running"
          /\ Len(calls') = Len(specPaths') /\ Len(call') = Len(specPaths')
          /\ numValidated' = 0
          /\ \A i \in 1..Len(specPaths') :
               /\ calls'[i] = LibraryCall(specPaths'[i])
               /\ call'[i] = NewCall(calls'[i].spec, opts)
               /\ routed'[i] = <<>>
     /\ pc # "start" =>
          /\ specPaths' = specPaths /\ calls' = calls
          /\ Len(call') = Len(call)]_vars

\* the first of two targets is still being buffered while the second,
\* dispatched behind it, has completed
C33_Witness ==
  /\ Len(specPaths) = 2 /\ Len(call) = 2
  /\ call[1].stage = "sniff" /\ routed[1] = <<>>
  /\ call[2].calledBack /\ routed[2] # <<>>

\* the stream of call i was read for sniffing and has ended
Buffered(i) == call[i].read /\ call[i].specContent \in Contents

SameName(headers, name) ==
  SelectSeq(headers, LAMBDA h : ToLowerCase(h.name) = ToLowerCase(name))

\* C35: when -H is given twice, every request that is dispatched carries
\* exactly one header for the name of the second -H, ignoring case, and it
\* has the capitalization and the value the second -H gave, also when the
\* first -H gave the same name in another capitalization.
C35_LastHeaderWins ==
  pc = "running" =>
    \A i \in 1..Len(call) :
      SameName(call[i].headers, ParseHeader(argv[4]).name)
        = <<Header(ParseHeader(argv[4]).name, ParseHeader(argv[4]).value)>>

\* C36: the exit code does not depend on the verbosity.  The step that
\* routes an outcome takes the error flag, the invalid flag and the exit
\* code from the flags before it and from the outcome alone, at every
\* verbosity: runs with the same outcomes deliver the same exit code, and
\* a run so quiet that it writes nothing still delivers 2 or 1.
C36_ExitCodeIgnoresVerbosity ==
  [][\A i \in 1..Len(routed) :
       /\ (routed'[i] # routed[i] /\ pc' = "crashed") =>
            \* onResult threw on the result, verbosity plays no part
            /\ GetMessagesThrows(routed'[i][Len(routed'[i])].result)
            /\ delivered' = delivered
       /\ (routed'[i] # routed[i] /\ pc' # "crashed") =>
         LET outcome == routed'[i][Len(routed'[i])]
         IN /\ hadError' = (hadError \/ IsFailure(outcome))
            /\ hadInvalid' = (hadInvalid \/ IsInvalid(outcome))
            /\ numValidated' = numValidated + 1
            /\ delivered' =
                 IF numValidated' = Len(specPaths)
                 THEN Append(delivered,
                             IF hadError' THEN 2 ELSE IF hadInvalid' THEN 1 ELSE 0)
                 ELSE delivered]_vars

\* -qq: an invalid document, nothing written, exit code 1
C36_Witness ==
  /\ verbosity = 0 - 2
  /\ delivered = <<1>>
  /\ log = <<>>
  /\ \E i \in Targets : SucceededInvalid(i)

\* C37: a target whose response ended with a status below 300 and a body
\* that parses as JSON, whatever the parsed value is (an object, a scalar,
\* null), is Succeeded, and routing it raised nothing: the batch has not
\* stopped short of its completion.
C37_AnyJsonSucceeds ==
  pc # "start" =>
    \A i \in Targets :
      (Answered(i) /\ ~IsErrorStatus(call[i].res.statusCode) /\ call[i].res.parses) =>
        /\ Succeeded(i)
        /\ pc # "crashed"

\* C38: validateAll is invoked with at least one target: when no positional
\* argument is given the list is the single target '-'.  Every dispatched
\* batch has a call for each of its one or more targets, its counter stays
\* within the length of the list, and the batch completes exactly when the
\* counter equals that length, which is then at least 1.
C38_NonEmptyTargets ==
  pc # "start" =>
    /\ Len(specPaths) >= 1
    /\ args = <<>> => specPaths = <<"-">>
    /\ Len(call) = Len(specPaths)
    /\ numValidated <= Len(specPaths)
    /\ (pc = "complete") = (delivered # <<>>)
    /\ (pc = "complete") => (numValidated = Len(specPaths))

\* no positional argument: the batch of the single target '-' completed
C38_Witness ==
  /\ args = <<>>
  /\ specPaths = <<"-">>
  /\ pc = "complete"
  /\ numValidated = 1
  /\ Len(delivered) = 1
====
